---- MODULE Spec2Model ----
(***************************************************************************)
(* ExprEvaluator of openmdao.main.expreval: a textual expression over      *)
(* dotted paths is parsed (pyparsing grammar of translate_expr), rewritten *)
(* by the parse actions into accessor calls on the scope or its parent,    *)
(* compiled, and later executed by evaluate() / set().                     *)
(*                                                                         *)
(* A text is a sequence of lexical tokens (whitespace is not modelled); a  *)
(* Python string built by the parse actions is the sequence of its tokens, *)
(* and a pyparsing token list is a sequence of such strings.               *)
(***************************************************************************)
EXTENDS Integers, Sequences, FiniteSets, TLC

(***************************************************************************)
(* The scoping object and its parent (collaborators of the evaluator).     *)
(***************************************************************************)
\* names for which scope.contains(name) is true
ScopeContains == {"a", "b", "c", "f"}
\* names for which hasattr(scope, name) is true ("p" is a private attribute,
\* "c" is contained but is not a plain attribute)
ScopeAttrs == {"a", "b", "f", "p"}
\* names for which scope.parent.contains(name) is true
ParentContains == {"a", "b", "x", "y", "p", "a.b", "comp.y"}

Digits == {"0", "1", "2", "3"}
Idents == {"a", "b", "c", "f", "p", "q", "x", "y", "a.b", "comp.y",
           "_local_setter"}
RHS == "_@RHS@_"
DigitVal == [d \in Digits |-> CHOOSE n \in 0..9 : ToString(n) = d]

(***************************************************************************)
(* Parser results.  ok: the element matched; toks: its token list; p: the  *)
(* position after it; r: the fields of the ExprEvaluator the parse actions *)
(* write (they are kept when the parser backtracks); exc: an exception     *)
(* other than ParseException raised by a parse action.                     *)
(***************************************************************************)
Tok(s, p) == IF p >= 1 /\ p <= Len(s) THEN s[p] ELSE "<end>"
Match(toks, p, r) == [ok |-> TRUE, toks |-> toks, p |-> p, r |-> r, exc |-> ""]
NoMatch(p, r) == [ok |-> FALSE, toks |-> <<>>, p |-> p, r |-> r, exc |-> ""]
Raise(e, p, r) == [ok |-> FALSE, toks |-> <<>>, p |-> p, r |-> r, exc |-> e]

RECURSIVE Join(_)
\* ''.join(tok)
Join(tok) == IF tok = <<>> THEN <<>> ELSE Head(tok) \o Join(Tail(tok))

RECURSIVE Replace1(_, _, _)
\* str.replace(old, new, 1) for a one-token old
Replace1(str, old, new) ==
    IF str = <<>> THEN <<>>
    ELSE IF Head(str) = old THEN new \o Tail(str)
    ELSE <<Head(str)>> \o Replace1(Tail(str), old, new)

_register_input(r, name) == [r EXCEPT !.input_names = @ \cup {name}]
_register_output(r, name) == [r EXCEPT !.output_names = @ \cup {name}]

(***************************************************************************)
(* Parse actions.                                                          *)
(***************************************************************************)
RECURSIVE PickEvery(_, _, _)
\* for index in range(from, len(tok), step): full += ',' + tok[index]
\* (from is the 0-based start of the Python range)
PickEvery(tok, from, step) ==
    IF from >= Len(tok) THEN <<>>
    ELSE <<",">> \o tok[from + 1] \o PickEvery(tok, from + step, step)

_trans_arrayindex(tok) ==
    LET full == <<"[">> \o tok[2]
        rest == IF tok[3] = <<",">> THEN PickEvery(tok, 3, 2)
                ELSE PickEvery(tok, 4, 3)
    IN  <<full \o rest \o <<"]">>>>

_trans_arglist(tok) ==
    LET full == <<"(">> \o (IF Len(tok) > 2 THEN tok[2] ELSE <<>>)
    IN  <<full \o PickEvery(tok, 3, 2) \o <<")">>>>

\* the accessor call text built at the end of _trans_fancyname
FancyCall_getall(scname, tok) ==
    <<scname, ".get", "(", "'">> \o tok[1] \o <<"'">>
    \o (IF Len(tok) > 1 THEN <<",">> \o tok[2] ELSE <<>>) \o <<")">>

FancyCall(scname, tok) ==
    IF Len(tok) = 1 \/ (Len(tok) > 1 /\ Head(tok[2]) = "[")
    THEN <<scname, ".get", "(", "'">> \o tok[1] \o <<"'">>
         \o (IF Len(tok) > 1 THEN <<",">> \o tok[2] ELSE <<>>) \o <<")">>
    ELSE <<scname, ".invoke", "(", "'">> \o tok[1] \o <<"'">>
         \o (IF Len(tok[2]) > 2
             THEN <<",">> \o SubSeq(tok[2], 2, Len(tok[2]) - 1) ELSE <<>>)
         \o <<")">>

\* the scope a name is resolved against: the scoping object itself when it
\* contains the name, else its parent
ScopeName_parentfirst(name) ==
    IF name \in ParentContains THEN "scope.parent"
    ELSE IF name \in ScopeContains THEN "scope" ELSE "scope.parent"

ScopeName(name) ==
    IF name \in ScopeContains THEN "scope" ELSE "scope.parent"

\* c: [ref, alive, parent, lazy_check] - exprobj._scope (a weak reference, or
\* None), the scope behind the weak reference as the parse action sees it,
\* and the lazy_check flag of the evaluator
_trans_fancyname(tok, p, r, c) ==
    LET name == tok[1][1] IN
    IF c.ref = "None" THEN Raise("TypeError", p, r)
    ELSE IF ~c.alive THEN Raise("AttributeError", p, r)
    ELSE IF ScopeName(name) = "scope"
    THEN IF name \in ScopeAttrs THEN Match(tok, p, r)
         ELSE Match(<<FancyCall("scope", tok)>>, p, r)
    ELSE IF name = "_local_setter" THEN Match(tok, p, r)
    ELSE LET w == IF name \in ScopeAttrs
                  THEN [r EXCEPT !.warnings = @ \cup {name}] ELSE r
         IN  IF c.lazy_check = FALSE
                /\ (~c.parent \/ name \notin ParentContains)
             THEN Raise("RuntimeError", p, w)
             ELSE Match(<<FancyCall("scope.parent", tok)>>, p,
                        _register_input(w, name))

\* the index argument _trans_lhs appends to the set call
LhsIndex_dropped(tok) == <<>>

LhsIndex(tok) ==
    IF Len(tok) > 1 /\ tok[2] # <<"=">> THEN <<",">> \o tok[2] ELSE <<>>

_trans_lhs(tok, p, r, c) ==
    LET name == tok[1][1]
        full(scname) == <<scname, ".set", "(", "'">> \o tok[1]
                        \o <<"'", ",", RHS>> \o LhsIndex(tok)
    IN
    IF c.ref = "None" THEN Raise("TypeError", p, r)
    ELSE IF ~c.alive THEN Raise("AttributeError", p, r)
    ELSE IF ScopeName(name) = "scope"
    THEN Match(<<<<"=">>, full("scope") \o <<")">>>>, p, r)
    ELSE LET w == IF name \in ScopeAttrs
                  THEN [r EXCEPT !.warnings = @ \cup {name}] ELSE r
         IN  IF c.lazy_check = FALSE /\ ~c.parent
             THEN Raise("AttributeError", p, w)
             ELSE IF c.lazy_check = FALSE /\ name \notin ParentContains
             THEN Raise("RuntimeError", p, w)
             ELSE Match(<<<<"=">>, full("scope.parent") \o <<")">>>>, p,
                        _register_output(w, name))

_trans_assign(tok, p, r) ==
    IF tok[1] = <<"=">>
    THEN Match(<<Replace1(tok[2], RHS, tok[3])>>, p,
               [r EXCEPT !.lhs = Replace1(tok[2], RHS, <<>>), !.rhs = tok[3]])
    ELSE Match(tok, p, [r EXCEPT !.lhs = Join(tok)])

(***************************************************************************)
(* The grammar of translate_expr.  expr, term, factor and atom return the  *)
(* one string that Combine makes of their tokens (every use of expr in the *)
(* grammar is inside a Combine).  An element that consists of several      *)
(* sub-elements is parsed in steps: X1, X2, ... take the results of the    *)
(* sub-elements of X parsed so far.                                        *)
(***************************************************************************)
RECURSIVE expr(_, _, _, _), term(_, _, _, _), factor(_, _, _, _),
          atom(_, _, _, _), fancyname(_, _, _, _), arrayindex(_, _, _, _),
          arglist(_, _, _, _), CommaExprs(_, _, _, _), IndexGroups(_, _, _, _),
          Trailers(_, _, _, _), MoreOps(_, _, _, _, _)

\* the tokens of e followed by those of m
Then(e, m) ==
    IF m.exc # "" THEN m ELSE Match(e.toks \o m.toks, m.p, m.r)

\* the same, joined into one string
Glue(e, m) ==
    IF m.exc # "" THEN m ELSE Match(<<Join(e.toks \o m.toks)>>, m.p, m.r)

CommaExprs1(e, s, p, c) ==
    IF e.exc # "" THEN e
    ELSE IF ~e.ok THEN Match(<<>>, p, e.r)
    ELSE Then(Match(<<<<",">>>> \o e.toks, e.p, e.r),
              CommaExprs(s, e.p, e.r, c))

\* ZeroOrMore(comma + Combine(expr))
CommaExprs(s, p, r, c) ==
    IF Tok(s, p) # "," THEN Match(<<>>, p, r)
    ELSE CommaExprs1(expr(s, p + 1, r, c), s, p, c)

IndexGroups2(e, m, s, p, c) ==
    IF m.exc # "" THEN m
    ELSE IF Tok(s, m.p) # "]" THEN Match(<<>>, p, m.r)
    ELSE Then(Match(<<<<"[">>>> \o e.toks \o m.toks \o <<<<"]">>>>, m.p, m.r),
              IndexGroups(s, m.p + 1, m.r, c))

IndexGroups1(e, s, p, c) ==
    IF e.exc # "" THEN e
    ELSE IF ~e.ok THEN Match(<<>>, p, e.r)
    ELSE IndexGroups2(e, CommaExprs(s, e.p, e.r, c), s, p, c)

\* ZeroOrMore(lbracket + Combine(expr) + ZeroOrMore(comma+Combine(expr))
\*            + rbracket)
IndexGroups(s, p, r, c) ==
    IF Tok(s, p) # "[" THEN Match(<<>>, p, r)
    ELSE IndexGroups1(expr(s, p + 1, r, c), s, p, c)

arrayindex1(g, p) ==
    IF g.exc # "" THEN g
    ELSE IF g.toks = <<>> THEN NoMatch(p, g.r)
    ELSE Match(_trans_arrayindex(g.toks), g.p, g.r)

\* arrayindex << OneOrMore(...), with parse action _trans_arrayindex
arrayindex(s, p, r, c) == arrayindex1(IndexGroups(s, p, r, c), p)

arglist2(args, m, s, p) ==
    IF m.exc # "" THEN m
    ELSE IF Tok(s, m.p) # ")" THEN NoMatch(p, m.r)
    ELSE Match(_trans_arglist(<<<<"(">>>> \o args \o m.toks \o <<<<")">>>>),
               m.p + 1, m.r)

arglist1(e, s, p, c) ==
    IF e.exc # "" THEN e
    ELSE arglist2(e.toks,
                  IF e.ok THEN CommaExprs(s, e.p, e.r, c)
                  ELSE Match(<<>>, p + 1, e.r),
                  s, p)

\* arglist << lpar + Optional(Combine(expr) + ZeroOrMore(comma+Combine(expr)))
\*            + rpar, with parse action _trans_arglist
arglist(s, p, r, c) ==
    IF Tok(s, p) # "(" THEN NoMatch(p, r)
    ELSE arglist1(expr(s, p + 1, r, c), s, p, c)

Trailers2(t, s, p, c) ==
    IF t.exc # "" THEN t
    ELSE IF ~t.ok THEN Match(<<>>, p, t.r)
    ELSE Then(t, Trailers(s, t.p, t.r, c))

Trailers1(a, s, p, c) ==
    Trailers2(IF a.exc # "" \/ a.ok THEN a ELSE arglist(s, p, a.r, c), s, p, c)

\* ZeroOrMore(arrayindex | arglist)
Trailers(s, p, r, c) == Trailers1(arrayindex(s, p, r, c), s, p, c)

fancyname1(t, name, c) ==
    IF t.exc # "" THEN t
    ELSE _trans_fancyname(<<<<name>>>> \o t.toks, t.p, t.r, c)

\* fancyname << pathname + ZeroOrMore(arrayindex | arglist), with parse
\* action _trans_fancyname
fancyname(s, p, r, c) ==
    IF Tok(s, p) \notin Idents THEN NoMatch(p, r)
    ELSE fancyname1(Trailers(s, p + 1, r, c), Tok(s, p), c)

atom3(e, sign, s, p) ==
    IF e.exc # "" THEN e
    ELSE IF ~e.ok \/ Tok(s, e.p) # ")" THEN NoMatch(p, e.r)
    ELSE Match(<<sign \o <<"(">> \o Join(e.toks) \o <<")">>>>, e.p + 1, e.r)

atom2(f, sign, s, p, q, c) ==
    IF f.exc # "" THEN f
    ELSE IF f.ok THEN Match(<<sign \o Join(f.toks)>>, f.p, f.r)
    ELSE IF Tok(s, q) # "(" THEN NoMatch(p, f.r)
    ELSE atom3(expr(s, q + 1, f.r, c), sign, s, p)

atom1(sign, s, p, q, r, c) ==
    IF Tok(s, q) \in Digits THEN Match(<<sign \o <<Tok(s, q)>>>>, q + 1, r)
    ELSE atom2(fancyname(s, q, r, c), sign, s, p, q, c)

\* atom = Combine(Optional("-") + ((number | fancyname) | (lpar+expr+rpar)))
atom(s, p, r, c) ==
    atom1(IF Tok(s, p) = "-" THEN <<"-">> ELSE <<>>, s, p,
          IF Tok(s, p) = "-" THEN p + 1 ELSE p, r, c)

MoreOps1(e, lvl, s, p, c) ==
    IF e.exc # "" THEN e
    ELSE IF ~e.ok THEN Match(<<>>, p, e.r)
    ELSE Then(Match(<<<<Tok(s, p)>>>> \o e.toks, e.p, e.r),
              MoreOps(lvl, s, e.p, e.r, c))

\* ZeroOrMore(op + operand) for the three binary levels:
\*   lvl 1: ZeroOrMore(addop + term), lvl 2: ZeroOrMore(multop + factor),
\*   lvl 3: ZeroOrMore(expop + factor)
MoreOps(lvl, s, p, r, c) ==
    IF Tok(s, p) \notin (IF lvl = 1 THEN {"+", "-"}
                         ELSE IF lvl = 2 THEN {"*", "/"} ELSE {"**"})
    THEN Match(<<>>, p, r)
    ELSE MoreOps1(IF lvl = 1 THEN term(s, p + 1, r, c)
                  ELSE factor(s, p + 1, r, c), lvl, s, p, c)

\* the first operand a of a binary level followed by ZeroOrMore(op + operand)
Operands(a, lvl, s, c) ==
    IF a.exc # "" \/ ~a.ok THEN a
    ELSE Glue(a, MoreOps(lvl, s, a.p, a.r, c))

\* factor << atom + ZeroOrMore(expop + factor)
factor(s, p, r, c) == Operands(atom(s, p, r, c), 3, s, c)

\* term = factor + ZeroOrMore(multop + factor)
term(s, p, r, c) == Operands(factor(s, p, r, c), 2, s, c)

\* expr << term + ZeroOrMore(addop + term)
expr(s, p, r, c) == Operands(term(s, p, r, c), 1, s, c)

lhs1(a, s, p, c) ==
    IF a.exc # "" THEN a
    ELSE IF Tok(s, IF a.ok THEN a.p ELSE p + 1) # "=" THEN NoMatch(p, a.r)
    ELSE _trans_lhs(<<<<Tok(s, p)>>>> \o a.toks \o <<<<"=">>>>,
                    (IF a.ok THEN a.p ELSE p + 1) + 1, a.r, c)

\* lhs = lhs_fancyname + assignop, lhs_fancyname = pathname +
\* ZeroOrMore(arrayindex), with parse action _trans_lhs
lhs(s, p, r, c) ==
    IF Tok(s, p) \notin Idents THEN NoMatch(p, r)
    ELSE lhs1(arrayindex(s, p + 1, r, c), s, p, c)

equation2(l, e, s) ==
    IF e.exc # "" THEN e
    ELSE IF ~e.ok \/ e.p # Len(s) + 1 THEN Raise("ParseException", e.p, e.r)
    ELSE _trans_assign(l.toks \o e.toks, e.p, e.r)

equation1(l, s, c) ==
    IF l.exc # "" THEN l ELSE equation2(l, expr(s, l.p, l.r, c), s)

\* equation = Optional(lhs) + Combine(expr) + StringEnd(), with parse action
\* _trans_assign
equation(s, r, c) == equation1(lhs(s, 1, r, c), s, c)

simple_str1(f, s) ==
    IF f.exc # "" THEN f
    ELSE IF ~f.ok \/ f.p # Len(s) + 1 THEN Raise("ParseException", f.p, f.r)
    ELSE f

\* simple_str = fancyname + StringEnd()
simple_str(s, r, c) == simple_str1(fancyname(s, 1, r, c), s)

\* the value translate_expr returns or the exception it raises (a
\* ParseException is re-raised as RuntimeError)
Translated(e) ==
    [ok |-> e.exc = "",
     text |-> IF e.exc = "" THEN Join(e.toks) ELSE <<>>,
     r |-> e.r,
     exc |-> IF e.exc = "ParseException" THEN "RuntimeError:syntax"
             ELSE IF e.exc = "RuntimeError" THEN "RuntimeError:name"
             ELSE e.exc]

\* translate_expr(text, exprobj, single_name)
translate_expr(text, r, c, single_name) ==
    Translated(IF single_name THEN simple_str(text, r, c)
               ELSE equation(text, r, c))

(***************************************************************************)
(* compile(): the Python parser on the rewritten text.  The artifact is    *)
(* the syntax tree of the text together with the compile mode.             *)
(***************************************************************************)
Node(k, s, kids) == [k |-> k, s |-> s, kids |-> kids]
PyOk(ast, p) == [ok |-> TRUE, ast |-> ast, p |-> p]
PyFail == [ok |-> FALSE, ast |-> Node("none", "", <<>>), p |-> 0]
PyList(ok, kids, p) == [ok |-> ok, kids |-> kids, p |-> p]

RECURSIVE py_expr(_, _), py_term(_, _), py_unary(_, _), py_power(_, _),
          py_primary(_, _), py_atom(_, _), py_trailers(_, _, _),
          py_exprlist(_, _, _), py_binrest(_, _, _, _)

py_exprlist2(e, m) == PyList(m.ok, <<e.ast>> \o m.kids, m.p)

py_exprlist1(e, s, p, close) ==
    IF ~e.ok THEN PyList(FALSE, <<>>, p)
    ELSE IF Tok(s, e.p) = ","
    THEN py_exprlist2(e, py_exprlist(s, e.p + 1, close))
    ELSE PyList(Tok(s, e.p) = close, <<e.ast>>, e.p)

\* expr (',' expr)* [','] up to the closing token; kids are the items
py_exprlist(s, p, close) ==
    IF Tok(s, p) = close THEN PyList(TRUE, <<>>, p)
    ELSE py_exprlist1(py_expr(s, p), s, p, close)

py_paren(e, s) ==
    IF e.ok /\ Tok(s, e.p) = ")" THEN PyOk(e.ast, e.p + 1) ELSE PyFail

py_listdisplay(l) ==
    IF l.ok THEN PyOk(Node("list", "", l.kids), l.p + 1) ELSE PyFail

py_atom(s, p) ==
    IF Tok(s, p) \in Digits THEN PyOk(Node("num", Tok(s, p), <<>>), p + 1)
    ELSE IF Tok(s, p) = "'"
    THEN IF Tok(s, p + 2) = "'"
         THEN PyOk(Node("str", Tok(s, p + 1), <<>>), p + 3)
         ELSE PyFail
    ELSE IF Tok(s, p) = "(" THEN py_paren(py_expr(s, p + 1), s)
    ELSE IF Tok(s, p) = "[" THEN py_listdisplay(py_exprlist(s, p + 1, "]"))
    ELSE IF Tok(s, p) \in Idents \cup {"scope", "scope.parent"}
    THEN PyOk(Node("name", Tok(s, p), <<>>), p + 1)
    ELSE PyFail

py_subscript(l, s, obj) ==
    IF ~l.ok \/ l.kids = <<>> THEN PyFail
    ELSE py_trailers(s, l.p + 1,
             Node("sub", "", <<obj, IF Len(l.kids) = 1 THEN l.kids[1]
                                   ELSE Node("tuple", "", l.kids)>>))

py_call(l, s, obj) ==
    IF ~l.ok THEN PyFail
    ELSE py_trailers(s, l.p + 1, Node("call", "", <<obj>> \o l.kids))

\* trailers of a primary: subscript, call, attribute
py_trailers(s, p, obj) ==
    IF Tok(s, p) = "[" THEN py_subscript(py_exprlist(s, p + 1, "]"), s, obj)
    ELSE IF Tok(s, p) = "(" THEN py_call(py_exprlist(s, p + 1, ")"), s, obj)
    ELSE IF Tok(s, p) \in {".get", ".set", ".invoke"}
    THEN py_trailers(s, p + 1, Node("attr", Tok(s, p), <<obj>>))
    ELSE PyOk(obj, p)

py_primary1(a, s) == IF ~a.ok THEN PyFail ELSE py_trailers(s, a.p, a.ast)

py_primary(s, p) == py_primary1(py_atom(s, p), s)

py_power2(a, e) ==
    IF ~e.ok THEN PyFail ELSE PyOk(Node("bin", "**", <<a.ast, e.ast>>), e.p)

py_power1(a, s) ==
    IF ~a.ok THEN PyFail
    ELSE IF Tok(s, a.p) # "**" THEN a
    ELSE py_power2(a, py_unary(s, a.p + 1))

\* power: primary ['**' unary]
py_power(s, p) == py_power1(py_primary(s, p), s)

py_neg(e) == IF ~e.ok THEN PyFail ELSE PyOk(Node("neg", "", <<e.ast>>), e.p)

py_unary(s, p) ==
    IF Tok(s, p) = "-" THEN py_neg(py_unary(s, p + 1)) ELSE py_power(s, p)

py_binrest1(e, lvl, s, p, left) ==
    IF ~e.ok THEN PyFail
    ELSE py_binrest(lvl, s, e.p, Node("bin", Tok(s, p), <<left, e.ast>>))

\* left-associative (op operand)* at level lvl (1: + -, 2: * /)
py_binrest(lvl, s, p, left) ==
    IF Tok(s, p) \notin (IF lvl = 1 THEN {"+", "-"} ELSE {"*", "/"})
    THEN PyOk(left, p)
    ELSE py_binrest1(IF lvl = 1 THEN py_term(s, p + 1) ELSE py_unary(s, p + 1),
                     lvl, s, p, left)

py_operands(a, lvl, s) ==
    IF ~a.ok THEN PyFail ELSE py_binrest(lvl, s, a.p, a.ast)

py_term(s, p) == py_operands(py_unary(s, p), 2, s)

py_expr(s, p) == py_operands(py_term(s, p), 1, s)

NoCode == [mode |-> "none", ast |-> Node("none", "", <<>>)]

Compiled(e, text, mode) ==
    IF e.ok /\ e.p = Len(text) + 1
    THEN [ok |-> TRUE, code |-> [mode |-> mode, ast |-> e.ast]]
    ELSE [ok |-> FALSE, code |-> NoCode]

\* compile(text, '<string>', mode): the artifact, or SyntaxError
compile(text, mode) == Compiled(py_expr(text, 1), text, mode)

(***************************************************************************)
(* Python values and the execution of an artifact: eval(code,              *)
(* scope.__dict__, locals()).  A machine m holds what execution reads and  *)
(* writes: dict (scope.__dict__), lstore and pstore (the values behind the *)
(* accessors of the scope and of its parent), parent (scope.parent is not  *)
(* None), setter (the binding of _local_setter in locals(), if any) and    *)
(* calls (the accessor calls made, in order).                              *)
(***************************************************************************)
Val(t, n, s, l) == [t |-> t, n |-> n, s |-> s, l |-> l]
IntV(n) == Val("int", n, "", <<>>)
StrV(s) == Val("str", 0, s, <<>>)
ListV(l) == Val("list", 0, "", l)
TupleV(l) == Val("tuple", 0, "", l)
ObjV(s) == Val("obj", 0, s, <<>>)
BoundV(obj, meth) == Val("method", 0, obj, <<StrV(meth)>>)
FloatV == Val("float", 0, "", <<>>)
FuncV == Val("function", 0, "", <<>>)
NoneV == Val("None", 0, "", <<>>)
ErrV(kind) == Val("err", 0, kind, <<>>)
IsErr(v) == v.t = "err"

RECURSIVE Power(_, _)
Power(b, e) == IF e = 0 THEN 1 ELSE b * Power(b, e - 1)

RECURSIVE Repeat(_, _)
Repeat(l, n) == IF n <= 0 THEN <<>> ELSE l \o Repeat(l, n - 1)

RECURSIVE SumOf(_)
SumOf(l) == IF l = <<>> THEN 0 ELSE Head(l).n + SumOf(Tail(l))

\* Python 2 arithmetic on two values
BinOp(op, x, y) ==
    IF x.t = "int" /\ y.t = "int"
    THEN IF op = "+" THEN IntV(x.n + y.n)
         ELSE IF op = "-" THEN IntV(x.n - y.n)
         ELSE IF op = "*" THEN IntV(x.n * y.n)
         ELSE IF op = "/"
         THEN IF y.n = 0 THEN ErrV("ZeroDivisionError")
              ELSE IF y.n > 0 THEN IntV(x.n \div y.n)
              ELSE IntV((0 - x.n) \div (0 - y.n))
         ELSE IF y.n >= 0 THEN IntV(Power(x.n, y.n))
              ELSE IF x.n = 0 THEN ErrV("ZeroDivisionError") ELSE FloatV
    ELSE IF {x.t, y.t} \subseteq {"int", "float"}
    THEN FloatV
    ELSE IF op = "+" /\ x.t = "list" /\ y.t = "list" THEN ListV(x.l \o y.l)
    ELSE IF op = "+" /\ x.t = "tuple" /\ y.t = "tuple" THEN TupleV(x.l \o y.l)
    ELSE IF op = "*" /\ x.t \in {"list", "tuple"} /\ y.t = "int"
    THEN Val(x.t, 0, "", Repeat(x.l, y.n))
    ELSE IF op = "*" /\ y.t \in {"list", "tuple"} /\ x.t = "int"
    THEN Val(y.t, 0, "", Repeat(y.l, x.n))
    ELSE ErrV("TypeError")

\* obj[index]
Subscript(obj, index) ==
    IF obj.t \notin {"list", "tuple"} \/ index.t # "int" THEN ErrV("TypeError")
    ELSE LET i == IF index.n < 0 THEN index.n + Len(obj.l) ELSE index.n IN
         IF i < 0 \/ i >= Len(obj.l) THEN ErrV("IndexError")
         ELSE obj.l[i + 1]

RECURSIVE GetAt(_, _)
\* val[i0][i1]... for a list of indices
GetAt(val, index) ==
    IF index = <<>> \/ IsErr(val) THEN val
    ELSE GetAt(Subscript(val, Head(index)), Tail(index))

RECURSIVE SetAt(_, _, _)
\* val with val[i0][i1]... = new
SetAt(val, index, new) ==
    IF index = <<>> THEN new
    ELSE LET old == Subscript(val, Head(index)) IN
         IF IsErr(old) THEN old
         ELSE LET i == IF Head(index).n < 0 THEN Head(index).n + Len(val.l)
                       ELSE Head(index).n
                  sub == SetAt(old, Tail(index), new)
              IN  IF IsErr(sub) THEN sub
                  ELSE Val(val.t, 0, "", [val.l EXCEPT ![i + 1] = sub])

\* the index argument of an accessor: none, or one list of indices
IndexOf(rest) == IF rest = <<>> THEN <<>> ELSE rest[1].l
IndexOk(rest) == rest = <<>> \/ (Len(rest) = 1 /\ rest[1].t = "list")

Log(m, obj, meth, args) ==
    [m EXCEPT !.calls = Append(@, [obj |-> obj, meth |-> meth, args |-> args])]

\* scope.get / scope.set / scope.invoke and the same on scope.parent
Accessor(obj, meth, args, m0) ==
    LET m == Log(m0, obj, meth, args)
        known == IF obj = "scope" THEN ScopeContains ELSE ParentContains
        store == IF obj = "scope" THEN m.lstore ELSE m.pstore
        path == args[1].s
    IN
    IF args = <<>> \/ args[1].t # "str" THEN [v |-> ErrV("TypeError"), m |-> m]
    ELSE IF path \notin known THEN [v |-> ErrV("AttributeError"), m |-> m]
    ELSE IF meth = ".get"
    THEN IF ~IndexOk(Tail(args)) THEN [v |-> ErrV("TypeError"), m |-> m]
         ELSE IF obj = "scope" /\ path \in DOMAIN m.dict
         THEN [v |-> GetAt(m.dict[path], IndexOf(Tail(args))), m |-> m]
         ELSE [v |-> GetAt(store[path], IndexOf(Tail(args))), m |-> m]
    ELSE IF meth = ".set"
    THEN IF Len(args) < 2 \/ ~IndexOk(Tail(Tail(args)))
         THEN [v |-> ErrV("TypeError"), m |-> m]
         ELSE LET old == IF obj = "scope" /\ path \in DOMAIN m.dict
                         THEN m.dict[path] ELSE store[path]
                  new == SetAt(old, IndexOf(Tail(Tail(args))), args[2])
              IN  IF IsErr(new) THEN [v |-> new, m |-> m]
                  ELSE IF obj = "scope" /\ path \in DOMAIN m.dict
                  THEN [v |-> NoneV, m |-> [m EXCEPT !.dict[path] = new]]
                  ELSE IF obj = "scope"
                  THEN [v |-> NoneV, m |-> [m EXCEPT !.lstore[path] = new]]
                  ELSE [v |-> NoneV, m |-> [m EXCEPT !.pstore[path] = new]]
    ELSE [v |-> IntV(SumOf(Tail(args))), m |-> m]

RECURSIVE PyEval(_, _), PyEvalList(_, _)

\* the values of a list of sub-expressions, left to right; stops at the
\* first exception
PyEvalList(asts, m) ==
    IF asts = <<>> THEN [v |-> ListV(<<>>), m |-> m]
    ELSE LET h == PyEval(Head(asts), m) IN
         IF IsErr(h.v) THEN h
         ELSE LET t == PyEvalList(Tail(asts), h.m) IN
              IF IsErr(t.v) THEN t
              ELSE [v |-> ListV(<<h.v>> \o t.v.l), m |-> t.m]

PyEval(ast, m) ==
    IF ast.k = "num" THEN [v |-> IntV(DigitVal[ast.s]), m |-> m]
    ELSE IF ast.k = "str" THEN [v |-> StrV(ast.s), m |-> m]
    ELSE IF ast.k = "name"
    THEN IF ast.s = "scope" THEN [v |-> ObjV("scope"), m |-> m]
         ELSE IF ast.s = "scope.parent"
         THEN [v |-> IF m.parent THEN ObjV("scope.parent") ELSE NoneV, m |-> m]
         ELSE IF ast.s = "_local_setter" /\ m.setter # <<>>
         THEN [v |-> m.setter[1], m |-> m]
         ELSE IF ast.s \in DOMAIN m.dict THEN [v |-> m.dict[ast.s], m |-> m]
         ELSE [v |-> ErrV("NameError"), m |-> m]
    ELSE IF ast.k = "attr"
    THEN LET o == PyEval(ast.kids[1], m) IN
         IF IsErr(o.v) THEN o
         ELSE IF o.v.t # "obj" THEN [v |-> ErrV("AttributeError"), m |-> o.m]
         ELSE [v |-> BoundV(o.v.s, ast.s), m |-> o.m]
    ELSE IF ast.k \in {"list", "tuple"}
    THEN LET l == PyEvalList(ast.kids, m) IN
         IF IsErr(l.v) THEN l
         ELSE [v |-> Val(ast.k, 0, "", l.v.l), m |-> l.m]
    ELSE IF ast.k = "neg"
    THEN LET e == PyEval(ast.kids[1], m) IN
         IF IsErr(e.v) THEN e
         ELSE IF e.v.t = "int" THEN [v |-> IntV(0 - e.v.n), m |-> e.m]
         ELSE IF e.v.t = "float" THEN e
         ELSE [v |-> ErrV("TypeError"), m |-> e.m]
    ELSE IF ast.k = "bin"
    THEN LET x == PyEval(ast.kids[1], m) IN
         IF IsErr(x.v) THEN x
         ELSE LET y == PyEval(ast.kids[2], x.m) IN
              IF IsErr(y.v) THEN y
              ELSE [v |-> BinOp(ast.s, x.v, y.v), m |-> y.m]
    ELSE IF ast.k = "sub"
    THEN LET o == PyEval(ast.kids[1], m) IN
         IF IsErr(o.v) THEN o
         ELSE LET i == PyEval(ast.kids[2], o.m) IN
              IF IsErr(i.v) THEN i
              ELSE [v |-> Subscript(o.v, i.v), m |-> i.m]
    ELSE IF ast.k = "call"
    THEN LET f == PyEval(ast.kids[1], m) IN
         IF IsErr(f.v) THEN f
         ELSE LET a == PyEvalList(Tail(ast.kids), f.m) IN
              IF IsErr(a.v) THEN a
              ELSE IF f.v.t = "function"
              THEN [v |-> IF \A i \in 1..Len(a.v.l) : a.v.l[i].t = "int"
                          THEN IntV(SumOf(a.v.l)) ELSE ErrV("TypeError"),
                    m |-> a.m]
              ELSE IF f.v.t # "method"
              THEN [v |-> ErrV("TypeError"), m |-> a.m]
              ELSE Accessor(f.v.s, f.v.l[1].s, a.v.l, a.m)
    ELSE [v |-> ErrV("SystemError"), m |-> m]

(***************************************************************************)
(* The ExprEvaluator object and its environment.                           *)
(***************************************************************************)
VARIABLES
    self,        \* self.__dict__ of the ExprEvaluator; _scope is "weakref" (a
                 \* weak reference to the scope) or "None"
    constructed, \* __init__ has returned normally: the object exists
    alive,       \* the scope behind the weak reference self._scope exists
    env,         \* values held by the scope and its parent
    warnings,    \* names passed to scope.warning
    last,        \* the last operation: its exception, its return value, the
                 \* accessor calls it made and the artifact it executed
    nassign      \* number of assignments to the text property so far

vars == <<self, constructed, alive, env, warnings, last, nassign>>

\* bound on the number of assignments to the text property after __init__
MaxAssign == 2

\* values passed to set()
SetValues == {IntV(7), IntV(8)}

\* source texts, as token sequences
T_b == <<"b">>
T_x == <<"x">>
T_ab0 == <<"a.b", "[", "0", "]">>
T_call == <<"comp.y", "(", "x", ",", "2", ")">>
T_xy == <<"x", "=", "y">>
T_bx == <<"b", "=", "x">>
T_bad == <<"a", "+">>
T_q == <<"q">>
T_x1 == <<"x", "(", "1", ")">>

\* the texts assigned in the life-cycle specification
Texts == {T_b, T_x, T_ab0, T_call, T_xy, T_bad, T_q, T_x1}

\* the texts translated in the translation specification
AllTexts == Texts \cup {
    T_bx,
    <<"a">>, <<"c">>, <<"p">>, <<"a.b">>,
    <<"b", "+", "1">>, <<"a", "=", "1">>, <<"q", "=", "1">>,
    <<"x", "=", "1">>, <<"1", "+", "2">>,
    <<"a", "[", "1", "]", "[", "0", "]">>,
    <<"a", "[", "1", ",", "0", "]">>,
    <<"a", "[", "1", "]">>,
    <<"a.b", "[", "0", "]", "[", "1", "]">>,
    <<"a.b", "[", "0", ",", "1", "]">>,
    <<"x", "[", "1", ",", "0", "]", "[", "1", "]">>,
    <<"x", "[", "1", "]", "[", "0", ",", "1", "]">>,
    <<"x", "[", "y", "]">>,
    <<"comp.y", "(", ")">>,
    <<"f", "(", "1", ",", "b", ")">>,
    <<"f", "(", "1", ")", "[", "0", "]">>,
    <<"x", "(", "1", ")", "[", "0", "]">>,
    <<"x", "[", "1", "]", "(", "2", ")">>,
    <<"-", "x", "**", "2">>, <<"-", "x">>, <<"(", "x", ")">>,
    <<"(", "x", "+", "b", ")", "*", "2">>,
    <<"x", "+", "1">>, <<"1">>,
    <<"b", "*", "a", "[", "0", "]", "[", "1", "]", "-", "2", "/", "b">>}

Row(x, y) == ListV(<<IntV(x), IntV(y)>>)

\* the values the scope and its parent hold at first: the attributes of the
\* scope (scope.__dict__), the contained names that are not attributes, and
\* the variables of the parent
Env0(parent) ==
    [dict |-> [n \in ScopeAttrs |->
                 IF n = "a" THEN ListV(<<Row(1, 2), Row(3, 4)>>)
                 ELSE IF n = "f" THEN FuncV
                 ELSE IF n = "b" THEN IntV(5) ELSE IntV(6)],
     lstore |-> [n \in ScopeContains \ ScopeAttrs |-> IntV(4)],
     pstore |-> [n \in ParentContains |->
                 IF n = "a.b" THEN ListV(<<Row(0, 1), IntV(2)>>)
                 ELSE IF n = "x" THEN ListV(<<IntV(3), Row(1, 0)>>)
                 ELSE IF n = "a" THEN ListV(<<Row(9, 9), Row(9, 9)>>)
                 ELSE IF n = "b" THEN IntV(9) ELSE IntV(1)],
     parent |-> parent]

Machine(e, setter) ==
    [dict |-> e.dict, lstore |-> e.lstore, pstore |-> e.pstore,
     parent |-> e.parent, setter |-> setter, calls |-> <<>>]

EnvOf(m) ==
    [dict |-> m.dict, lstore |-> m.lstore, pstore |-> m.pstore,
     parent |-> m.parent]

NoText == <<"<unset>">>

\* the attributes of the object before _set_text has set them
NoSelf(single_name, lazy_check) ==
    [_scope |-> "weakref",
     _text |-> NoText, input_names |-> {}, output_names |-> {},
     lazy_check |-> lazy_check, single_name |-> single_name,
     scoped_text |-> NoText, _code |-> NoCode,
     scoped_assignment_text |-> NoText, _assignment_code |-> NoCode,
     lhs |-> NoText, rhs |-> NoText]

Op(op, arg, exc, value, calls, ran, state) ==
    [op |-> op, arg |-> arg, exc |-> exc, value |-> value, calls |-> calls,
     ran |-> ran, state |-> state]

\* the fields of s the parse actions write, as the parser threads them
ActionFields(s, w) ==
    [input_names |-> s.input_names, output_names |-> s.output_names,
     lhs |-> s.lhs, rhs |-> s.rhs, warnings |-> w]

Written(s, r) ==
    [s EXCEPT !.input_names = r.input_names, !.output_names = r.output_names,
              !.lhs = r.lhs, !.rhs = r.rhs]

\* the first three statements of _set_text
ResetNames_kept(s, text) == [s EXCEPT !._text = text]

ResetNames(s, text) ==
    [s EXCEPT !._text = text, !.input_names = {}, !.output_names = {}]

\* the object after _set_text, the exception that ended it ("" if none) and
\* the warnings given to the scope
Outcome(s, exc, w) == [self |-> s, exc |-> exc, w |-> w]

\* self._assignment_code = compile(self.scoped_assignment_text, ..., 'exec')
_set_text4(s4, k2, w) ==
    IF ~k2.ok THEN Outcome(s4, "SyntaxError", w)
    ELSE Outcome([s4 EXCEPT !._assignment_code = k2.code], "", w)

\* self.scoped_assignment_text = translate_expr(...), t2 its result
_set_text3(s3, t2) ==
    IF ~t2.ok THEN Outcome(Written(s3, t2.r), t2.exc, t2.r.warnings)
    ELSE _set_text4([Written(s3, t2.r) EXCEPT
                         !.scoped_assignment_text = t2.text],
                    compile(t2.text, "exec"), t2.r.warnings)

\* self._code = compile(self.scoped_text, ..., 'eval'), k1 its result, and
\* the test of single_name
_set_text2_readonly(s2, k1, r, text, c1) ==
    IF ~k1.ok THEN Outcome(s2, "SyntaxError", r.warnings)
    ELSE Outcome([s2 EXCEPT !._code = k1.code], "", r.warnings)

_set_text2(s2, k1, r, text, c1) ==
    IF ~k1.ok THEN Outcome(s2, "SyntaxError", r.warnings)
    ELSE IF ~s2.single_name
    THEN Outcome([s2 EXCEPT !._code = k1.code], "", r.warnings)
    ELSE _set_text3([s2 EXCEPT !._code = k1.code],
                    translate_expr(text \o <<"=", "_local_setter">>, r,
                                   [c1 EXCEPT !.lazy_check = TRUE], FALSE))

\* self.scoped_text = translate_expr(text, self, ...), t1 its result
_set_text1(s1, t1, text, c1) ==
    IF ~t1.ok THEN Outcome(Written(s1, t1.r), t1.exc, t1.r.warnings)
    ELSE _set_text2([Written(s1, t1.r) EXCEPT !.scoped_text = t1.text],
                    compile(t1.text, "eval"), t1.r, text, c1)

\* the scope as the parse actions see it
Ctx(alv, par, lazy_check) ==
    [ref |-> "weakref", alive |-> alv, parent |-> par,
     lazy_check |-> lazy_check]

\* the same when exprobj._scope is s._scope
CtxOf(s, alv, par) == [Ctx(alv, par, s.lazy_check) EXCEPT !.ref = s._scope]

\* _set_text(self, text)
_set_text(s, text, alv, par, w) ==
    _set_text1(ResetNames(s, text),
               translate_expr(text, ActionFields(ResetNames(s, text), w),
                              CtxOf(s, alv, par), s.single_name),
               text, CtxOf(s, alv, par))

\* self._scope(): the scope, or None (FALSE) once it is gone
_scope_cached(alv) == TRUE

_scope(alv) == alv

\* __init__ once its call of _set_text has ended with res; when _set_text
\* raises, no object comes to exist
__init__(res, text) ==
    /\ warnings' = res.w
    /\ IF res.exc = ""
       THEN /\ self' = [res.self EXCEPT !.rhs = <<>>, !.lhs = <<>>]
            /\ constructed' = TRUE
       ELSE UNCHANGED <<self, constructed>>
    /\ last' = Op("__init__", text, res.exc, NoneV, <<>>, NoCode, <<>>)

\* ExprEvaluator(text, scope, single_name, lazy_check)
Construct(texts) ==
    /\ ~constructed
    /\ \E text \in texts :
         __init__(_set_text(self, text, _scope(alive), env.parent, warnings),
                  text)
    /\ UNCHANGED <<alive, env, nassign>>

\* the text setter once its call of _set_text has ended with res
TextSet(res, text) ==
    /\ self' = res.self
    /\ warnings' = res.w
    /\ last' = Op("_set_text", text, res.exc, NoneV, <<>>, NoCode, <<>>)

\* self.text = text
SetText(texts) ==
    /\ constructed
    /\ nassign < MaxAssign
    /\ \E text \in texts :
         TextSet(_set_text(self, text, _scope(alive), env.parent, warnings),
                 text)
    /\ nassign' = nassign + 1
    /\ UNCHANGED <<constructed, alive, env>>

\* the test of set() on the single_name flag
SingleName_any(s) == TRUE

SingleName(s) == s.single_name

\* the scope is gone: raise RuntimeError
ScopeGone(op, arg) ==
    /\ last' = Op(op, arg, "RuntimeError:scope", NoneV, <<>>, NoCode, <<>>)
    /\ UNCHANGED env

\* self._scope is None: the call self._scope() raises TypeError
NotCallable(op, arg) ==
    /\ last' = Op(op, arg, "TypeError", NoneV, <<>>, NoCode, <<>>)
    /\ UNCHANGED env

\* the artifact code was executed with outcome res
Executed(op, arg, res, code) ==
    /\ last' = Op(op, arg, IF IsErr(res.v) THEN res.v.s ELSE "",
                  IF IsErr(res.v) \/ op = "set" THEN NoneV ELSE res.v,
                  res.m.calls, code, <<>>)
    /\ env' = EnvOf(res.m)

\* self.evaluate()
evaluate_recompiling ==
    /\ constructed
    /\ IF self._scope = "None" THEN NotCallable("evaluate", <<>>)
       ELSE IF ~_scope(alive) THEN ScopeGone("evaluate", <<>>)
       ELSE Executed("evaluate", <<>>,
                     PyEval(self._code.ast, Machine(env, <<>>)), self._code)
    /\ self' = [self EXCEPT !._code = compile(self._text, "eval").code]
    /\ UNCHANGED <<constructed, alive, warnings, nassign>>

evaluate ==
    /\ constructed
    /\ IF self._scope = "None" THEN NotCallable("evaluate", <<>>)
       ELSE IF ~_scope(alive) THEN ScopeGone("evaluate", <<>>)
       ELSE Executed("evaluate", <<>>,
                     PyEval(self._code.ast, Machine(env, <<>>)), self._code)
    /\ UNCHANGED <<self, constructed, alive, warnings, nassign>>

\* self.set(val)
set ==
    /\ constructed
    /\ \E val \in SetValues :
         IF SingleName(self)
         THEN IF self._scope = "None" THEN NotCallable("set", <<val>>)
              ELSE IF ~_scope(alive) THEN ScopeGone("set", <<val>>)
              ELSE Executed("set", <<val>>,
                            PyEval(self._assignment_code.ast,
                                   Machine(env, <<val>>)),
                            self._assignment_code)
         ELSE /\ last' = Op("set", <<val>>, "ValueError", NoneV, <<>>, NoCode,
                            <<>>)
              /\ UNCHANGED env
    /\ UNCHANGED <<self, constructed, alive, warnings, nassign>>

\* self.__getstate__(): the returned dict; _scope is the scope itself (or
\* None when it is gone), _code is None
__getstate__ ==
    /\ constructed
    /\ last.op # "__getstate__"
    /\ last' = Op("__getstate__", <<>>, "", NoneV, <<>>, NoCode,
                  <<[dict |-> [self EXCEPT !._code = NoCode],
                     _scope |-> self._scope # "None" /\ alive]>>)
    /\ UNCHANGED <<self, constructed, alive, env, warnings, nassign>>

\* self.__dict__ = state, and the scope is referenced weakly again when the
\* state holds one
Restored(state) ==
    [state.dict EXCEPT !._scope = IF state._scope THEN "weakref" ELSE "None"]

\* if self.scoped_text: self._code = compile(self.scoped_text, ..., 'eval'),
\* k the result of compile
Recompiled(s, k) ==
    /\ self' = IF s.scoped_text # <<>> /\ k.ok THEN [s EXCEPT !._code = k.code]
               ELSE s
    /\ last' = Op("__setstate__", <<>>,
                  IF s.scoped_text # <<>> /\ ~k.ok THEN "SyntaxError" ELSE "",
                  NoneV, <<>>, NoCode, <<>>)

\* self.__setstate__(state) with the state __getstate__ has just returned;
\* the restored object takes the place of the original
__setstate__ ==
    /\ constructed
    /\ last.op = "__getstate__"
    /\ Recompiled(Restored(last.state[1]),
                  compile(last.state[1].dict.scoped_text, "eval"))
    /\ UNCHANGED <<constructed, alive, env, warnings, nassign>>

\* the last strong reference to the scope is dropped
ScopeDies ==
    /\ constructed
    /\ alive
    /\ alive' = FALSE
    /\ last' = Op("del scope", <<>>, "", NoneV, <<>>, NoCode, <<>>)
    /\ UNCHANGED <<self, constructed, env, warnings, nassign>>

\* before the constructor is called: the scope exists, with or without a
\* parent, and the flags the constructor will be given are chosen
Init ==
    /\ \E sn \in BOOLEAN, lz \in BOOLEAN : self = NoSelf(sn, lz)
    /\ constructed = FALSE
    /\ alive = TRUE
    /\ \E par \in BOOLEAN : env = Env0(par)
    /\ warnings = {}
    /\ last = Op("none", <<>>, "", NoneV, <<>>, NoCode, <<>>)
    /\ nassign = 0

Next ==
    \/ Construct(Texts)
    \/ SetText(Texts)
    \/ evaluate
    \/ set
    \/ __getstate__
    \/ ScopeDies

Spec == Init /\ [][Next]_vars

\* translation of every text of AllTexts by the constructor, followed by
\* evaluations and sets
NextTrans ==
    \/ Construct(AllTexts)
    \/ evaluate
    \/ set

SpecTrans == Init /\ [][NextTrans]_vars

\* the life cycle with snapshots restored
NextRestore ==
    \/ Next
    \/ __setstate__

SpecRestore == Init /\ [][NextRestore]_vars

(***************************************************************************)
(* Vocabulary of the properties.                                           *)
(***************************************************************************)
\* the last operation assigned the text property (in __init__ or later)
Assigned == last.op \in {"__init__", "_set_text"}
AssignedOk == constructed /\ Assigned /\ last.exc = ""

\* the text has a top-level '=' (no index expression can hold one)
IsAssignment(text) == \E i \in 1..Len(text) : text[i] = "="
Names(text) == {text[i] : i \in 1..Len(text)} \cap Idents
ForeignNames == Idents \ (ScopeContains \cup {"_local_setter"})

\* the foreign paths a text reads: every foreign path but the target of '='
ReadPaths(text) ==
    {text[i] : i \in {j \in 1..Len(text) : ~(j = 1 /\ IsAssignment(text))}}
        \cap ForeignNames

\* the foreign paths a text writes: the target of '=', or the path set()
\* assigns to when the expression is a single name
WritePaths(text, single_name) ==
    IF IsAssignment(text) \/ single_name THEN {text[1]} \cap ForeignNames
    ELSE {}

Fresh == [input_names |-> {}, output_names |-> {}, lhs |-> <<>>, rhs |-> <<>>,
          warnings |-> {}]

\* the translations of a text against the live scope
ReadForm(text) ==
    translate_expr(text, Fresh,
                   Ctx(TRUE, env.parent, self.lazy_check), self.single_name)
AssignForm(text) ==
    translate_expr(text \o <<"=", "_local_setter">>, Fresh,
                   Ctx(TRUE, env.parent, TRUE), FALSE)

\* the artifact compiled from a translation
CodeOf(t, mode) == compile(t.text, mode).code

\* the object, and the artifact the last operation executed, agree with the
\* translations t (read) and a (assignment) of the text
ArtifactsOf(t, a, code, acode) ==
    /\ t.ok
    /\ self.scoped_text = t.text
    /\ self._code = code
    /\ self.single_name =>
           /\ a.ok
           /\ self.scoped_assignment_text = a.text
           /\ self._assignment_code = acode
    /\ (last.op = "evaluate" /\ last.ran # NoCode) => last.ran = code
    /\ (last.op = "set" /\ last.ran # NoCode) => last.ran = acode

\* C1: after any sequence of text assignments, failed ones included,
\* scoped_text and the compiled artifacts are the translation and the
\* compilation of the text the text property returns, and evaluate() and
\* set() execute no artifact of an earlier text.
C1_ArtifactsFollowText ==
    constructed =>
        ArtifactsOf(ReadForm(self._text), AssignForm(self._text),
                    CodeOf(ReadForm(self._text), "eval"),
                    CodeOf(AssignForm(self._text), "exec"))

\* C2: after every successful assignment of the text, input_names is
\* exactly the set of foreign paths the text reads and output_names exactly
\* the set of foreign paths it writes; nothing of an earlier text remains.
C2_NamesExact ==
    AssignedOk =>
        /\ self.input_names = ReadPaths(self._text)
        /\ self.output_names = WritePaths(self._text, self.single_name)

\* "b" was assigned after "x = y" (whose right-hand side is still in rhs)
C2_Witness ==
    /\ AssignedOk
    /\ last.op = "_set_text"
    /\ self._text = T_b
    /\ self.rhs = <<"scope.parent", ".get", "(", "'", "y", "'", ")">>
    /\ self.input_names = {}
    /\ self.output_names = {}

\* C3: once the scope is gone, every evaluate() and every set() on a
\* single_name expression fails with the scope-gone error, executes no
\* artifact and calls no accessor, whatever succeeded before.
C3_ScopeRechecked ==
    (/\ constructed
     /\ ~alive
     /\ last.op = "evaluate" \/ (last.op = "set" /\ self.single_name))
    => /\ last.exc = "RuntimeError:scope"
       /\ last.calls = <<>>
       /\ last.ran = NoCode

\* evaluate() fails after the scope went away, and set(7) had written x
\* while it was live
C3_Witness ==
    /\ constructed
    /\ ~alive
    /\ last.op = "evaluate"
    /\ last.exc = "RuntimeError:scope"
    /\ self._text = T_x
    /\ env.pstore["x"] = IntV(7)

\* a foreign name of the text that the parent does not contain, or any
\* foreign name when the scope has no parent
Unresolved(text) ==
    \E n \in ReadPaths(text) \cup WritePaths(text, FALSE) :
        ~env.parent \/ n \notin ParentContains

AcceptedForm(t, mode) == t.ok /\ compile(t.text, mode).ok

\* the grammar accepts the text and its rewritten forms compile
Accepted(text) ==
    /\ AcceptedForm(ReadForm(text), "eval")
    /\ self.single_name => AcceptedForm(AssignForm(text), "exec")

\* C4: with lazy_check false, assigning a text that reads or writes a
\* foreign name the parent lacks (or with no parent) fails at once with the
\* unresolved-name error; with lazy_check true the assignment succeeds and
\* the failure comes at evaluate() time.
C4_EagerNameCheck ==
    /\ (Assigned /\ alive /\ ~self.lazy_check /\ Unresolved(last.arg))
       => last.exc = "RuntimeError:name"
    /\ (Assigned /\ alive /\ self.lazy_check /\ Unresolved(last.arg)
        /\ Accepted(last.arg))
       => last.exc = ""
    /\ (constructed /\ last.op = "evaluate" /\ alive /\ self.lazy_check
        /\ Unresolved(self._text) /\ Accepted(self._text))
       => last.exc # ""

\* C5: set() on an expression that is not single_name fails with the
\* invalid-operation error, calls no accessor and changes neither the
\* expression nor the values of the scope, live or not.
C5_SetRejected ==
    [][(last'.op = "set" /\ ~self.single_name)
       => /\ last'.exc = "ValueError"
          /\ last'.calls = <<>>
          /\ last'.ran = NoCode
          /\ self' = self
          /\ env' = env]_vars

\* set() was rejected on an expression whose scope is gone
C5_Witness ==
    /\ constructed
    /\ ~self.single_name
    /\ ~alive
    /\ last.op = "set"
    /\ last.exc = "ValueError"

\* the names both the scope and its parent contain
Shadowed == ScopeContains \cap ParentContains

\* the text applies an accessor of the parent to path n
ParentAccess(str, n) ==
    \E i \in 1..Len(str) :
        str[i] = "scope.parent" /\ Tok(str, i + 2) = "(" /\ Tok(str, i + 4) = n

SetOnScope(str, n) ==
    Len(str) >= 6 /\ SubSeq(str, 1, 6) = <<"scope", ".set", "(", "'", n, "'">>

\* C6: a name the scope contains is resolved locally even when the parent
\* exposes it too: no read or write of it goes to scope.parent, a write
\* goes to scope.set, and it is in neither input_names nor output_names.
C6_LocalWins ==
    constructed =>
        \A n \in Shadowed \cap Names(self._text) :
            /\ n \notin self.input_names \cup self.output_names
            /\ ~ParentAccess(self.scoped_text, n)
            /\ self.single_name => ~ParentAccess(self.scoped_assignment_text, n)
            /\ (IsAssignment(self._text) /\ self._text[1] = n)
               => SetOnScope(self.scoped_text, n)
            /\ (self.single_name /\ self._text[1] = n)
               => SetOnScope(self.scoped_assignment_text, n)
            /\ last.op \in {"evaluate", "set"}
               => \A i \in 1..Len(last.calls) :
                      ~(/\ last.calls[i].obj = "scope.parent"
                        /\ last.calls[i].args[1] = StrV(n))
            /\ (last.op = "evaluate" /\ self._text = <<n>>)
               => last.value = env.dict[n]

\* "b = x" was evaluated: the scope's own b has the parent's x, the
\* parent's b is untouched
C6_Witness ==
    /\ constructed
    /\ self._text = T_bx
    /\ last.op = "evaluate"
    /\ last.exc = ""
    /\ env.dict["b"] = env.pstore["x"]
    /\ env.pstore["b"] = IntV(9)

ForeignSingle ==
    constructed /\ self.single_name /\ self._text[1] \in ForeignNames

LastCall(calls) == calls[Len(calls)]

\* C7: for a single_name expression over a foreign path, set(v) gives the
\* parent's set accessor the path and the indices evaluate() gives its get
\* accessor, and evaluate() right after set(v) returns v.
C7_SetThenEvaluate ==
    [][(ForeignSingle /\ last.op = "set" /\ last.exc = ""
        /\ last'.op = "evaluate")
       => /\ last'.exc = ""
          /\ last'.value = last.arg[1]
          /\ LET sc == LastCall(last.calls)
                 gc == LastCall(last'.calls)
             IN  /\ sc.obj = "scope.parent" /\ sc.meth = ".set"
                 /\ gc.obj = "scope.parent" /\ gc.meth = ".get"
                 /\ sc.args[1] = gc.args[1]
                 /\ Tail(Tail(sc.args)) = Tail(gc.args)]_vars

\* "a.b[0]": set(7) wrote index 0 of a.b and evaluate() returned 7
C7_Witness ==
    /\ ForeignSingle
    /\ self._text = T_ab0
    /\ last.op = "evaluate"
    /\ last.value = IntV(7)
    /\ env.pstore["a.b"].l[1] = IntV(7)
    /\ LastCall(last.calls).args = <<StrV("a.b"), ListV(<<IntV(0)>>)>>

\* the text reads attributes of the scope only
LocalOnly(text) ==
    /\ Names(text) # {}
    /\ Names(text) \subseteq ScopeContains \cap ScopeAttrs
    /\ ~IsAssignment(text)

\* the untranslated text evaluated against the values of the scope
Direct(text) == PyEval(compile(text, "eval").code.ast, Machine(env, <<>>))

\* the last operation ended as the execution d did
SameAs(d) ==
    IF IsErr(d.v) THEN last.exc = d.v.s
    ELSE last.exc = "" /\ last.value = d.v

\* C8: for a well-formed expression over local names only, index trailers
\* included (a[1,2] as well as a[1][2]), evaluate() gives what evaluating
\* the untranslated text against the same local values gives.
C8_LocalSameAsDirect ==
    (constructed /\ last.op = "evaluate" /\ alive /\ LocalOnly(self._text))
    => SameAs(Direct(self._text))

\* the tokens after the top-level '='
RhsTokens(text) ==
    LET eq == CHOOSE i \in 1..Len(text) : text[i] = "=" IN
    SubSeq(text, eq + 1, Len(text))

\* C9: after constructing an expression that is not single_name, and after
\* every later successful assignment, lhs and rhs describe the text: with
\* a top-level '=', rhs is the rewritten right-hand side and lhs is the
\* set call without it; with none, lhs is the rewritten expression.
C9_LhsRhsDescribeText ==
    (AssignedOk /\ ~self.single_name) =>
        IF IsAssignment(self._text)
        THEN /\ self.rhs = ReadForm(RhsTokens(self._text)).text
             /\ Replace1(self.lhs, ",", <<",">> \o self.rhs) = self.scoped_text
        ELSE self.lhs = self.scoped_text

\* C10: the state __getstate__ returns holds no compiled artifact, neither
\* the read artifact nor the assignment artifact.
C10_SnapshotWithoutArtifacts ==
    last.op = "__getstate__" =>
        /\ last.state[1].dict._code = NoCode
        /\ last.state[1].dict._assignment_code = NoCode

\* the object was restored from a snapshot taken when the scope was gone
RestoredWithoutScope == constructed /\ self._scope = "None"

\* C11: a restore of a snapshot gives an object that behaves as the original
\* did at snapshot time: every field but the scope reference and the read
\* artifact is the original's, the read artifact is the compilation of
\* scoped_text (the original's artifact), the scope is referenced weakly
\* when it was live at snapshot time, and evaluate() and set() on an object
\* restored from a snapshot taken with the scope gone fail with the
\* scope-gone error.
C11_RestoreBehavesAlike ==
    [][/\ last'.op = "__setstate__"
          => /\ last'.exc = ""
             /\ self' = [self EXCEPT !._scope = self'._scope]
             /\ self'._code = compile(self'.scoped_text, "eval").code
             /\ alive => self'._scope = "weakref"
       /\ (RestoredWithoutScope
           /\ (last'.op = "evaluate" \/ (last'.op = "set" /\ self.single_name)))
          => last'.exc = "RuntimeError:scope"]_vars

\* the translation of a one-token sub-expression (a number or a name)
TrAtom(t) ==
    IF t \in Digits \/ t \in ScopeContains \cap ScopeAttrs THEN <<t>>
    ELSE <<ScopeName(t), ".get", "(", "'", t, "'", ")">>

RECURSIVE TrItems(_)
\* the translations of comma-separated one-token sub-expressions
TrItems(items) ==
    IF items = <<>> THEN <<>>
    ELSE (IF Head(items) = "," THEN <<",">> ELSE TrAtom(Head(items)))
         \o TrItems(Tail(items))

\* items is a comma-separated list of numbers and names (empty if allowed)
SimpleItems(items, mayBeEmpty) ==
    /\ IF items = <<>> THEN mayBeEmpty ELSE Len(items) % 2 = 1
    /\ \A i \in 1..Len(items) :
           IF i % 2 = 1 THEN items[i] \in Digits \cup (Idents \ {"_local_setter"})
           ELSE items[i] = ","

\* what stands between the brackets of the one trailer group of text
Inner(text) == SubSeq(text, 3, Len(text) - 1)

\* the text is a foreign path with no trailer, with one index group or with
\* one call group, over one-token sub-expressions
ForeignBare(text) == Len(text) = 1 /\ text[1] \in ForeignNames
ForeignIndexed(text) ==
    /\ Len(text) >= 4 /\ text[1] \in ForeignNames
    /\ text[2] = "[" /\ text[Len(text)] = "]"
    /\ SimpleItems(Inner(text), FALSE)
ForeignCalled(text) ==
    /\ Len(text) >= 3 /\ text[1] \in ForeignNames
    /\ text[2] = "(" /\ text[Len(text)] = ")"
    /\ SimpleItems(Inner(text), TRUE)

\* the accessor call on the parent the claim describes
ParentCall(meth, path, rest) ==
    <<"scope.parent", meth, "(", "'", path, "'">> \o rest \o <<")">>

\* C12: a foreign read path is rewritten to an accessor call on the parent
\* whose first argument is the quoted path: get('p') with no trailer,
\* get('p', [indices]) with an index trailer, invoke('p', args) with a call
\* trailer (invoke('p') when there are no arguments), each index and
\* argument carrying its own translation, and the path and every foreign
\* name among the indices and arguments are in input_names.
C12_ForeignReadRewritten ==
    constructed =>
        /\ ForeignBare(self._text)
           => self.scoped_text = ParentCall(".get", self._text[1], <<>>)
        /\ ForeignIndexed(self._text)
           => self.scoped_text =
                  ParentCall(".get", self._text[1],
                             <<",", "[">> \o TrItems(Inner(self._text))
                             \o <<"]">>)
        /\ ForeignCalled(self._text)
           => self.scoped_text =
                  ParentCall(".invoke", self._text[1],
                             IF Inner(self._text) = <<>> THEN <<>>
                             ELSE <<",">> \o TrItems(Inner(self._text)))
        /\ (ForeignBare(self._text) \/ ForeignIndexed(self._text)
            \/ ForeignCalled(self._text))
           => self.input_names = Names(self._text) \cap ForeignNames

\* "comp.y(x,2)" became an invoke on 'comp.y' with the get of 'x' and 2
C12_Witness ==
    /\ constructed
    /\ self._text = T_call
    /\ self.scoped_text =
           <<"scope.parent", ".invoke", "(", "'", "comp.y", "'", ",",
             "scope.parent", ".get", "(", "'", "x", "'", ")", ",", "2", ")">>
    /\ self.input_names = {"comp.y", "x"}

RECURSIVE GroupsFrom(_, _, _)
\* from position i on, the text is a sequence of balanced bracket groups
\* (depth is the number of brackets open at i)
GroupsFrom(text, i, depth) ==
    IF i > Len(text) THEN depth = 0
    ELSE IF text[i] = "[" THEN GroupsFrom(text, i + 1, depth + 1)
    ELSE IF text[i] = "]" THEN depth > 0 /\ GroupsFrom(text, i + 1, depth - 1)
    ELSE depth > 0 /\ GroupsFrom(text, i + 1, depth)

\* the text is one dotted path optionally followed by index groups
PathWithIndices(text) ==
    /\ text # <<>>
    /\ text[1] \in Idents
    /\ GroupsFrom(text, 2, 0)

\* C13: with single_name true an assignment of the text, the constructor's
\* included, succeeds only for one dotted path optionally followed by index
\* groups; any other text (operator, number, unary minus, parentheses,
\* top-level '=', call trailer) ends with an error at assignment time.
C13_SingleNameIsOnePath ==
    (Assigned /\ self.single_name /\ ~PathWithIndices(last.arg))
    => (last.exc # "" /\ (last.op = "__init__" => ~constructed))

\* the constructor rejected "x(1)" for a single_name expression
C13_Witness ==
    /\ ~constructed
    /\ self.single_name
    /\ last.op = "__init__"
    /\ last.arg = T_x1
    /\ last.exc = "RuntimeError:syntax"

\* the operations that translate and compile
Compiling == {"__init__", "_set_text", "__setstate__"}

\* C14: evaluate() and set(), succeeding or failing, leave the text, the
\* rewritten texts, the compiled artifacts, the name sets and the flags of
\* the expression as they are and execute the artifact the object holds;
\* the rewritten texts and the artifacts change only when the text is
\* assigned or a snapshot is restored.
C14_EvaluationsReuseArtifacts ==
    [][/\ last'.op \in {"evaluate", "set"}
          => /\ self' = self
             /\ last'.ran \in {NoCode, self._code, self._assignment_code}
       /\ (\/ self'._code # self._code
           \/ self'._assignment_code # self._assignment_code
           \/ self'.scoped_text # self.scoped_text
           \/ self'.scoped_assignment_text # self.scoped_assignment_text)
          => last'.op \in Compiling]_vars

\* "x = y" was evaluated with the artifact compiled at construction: the
\* parent's x has the value of y
C14_Witness ==
    /\ constructed
    /\ self._text = T_xy
    /\ nassign = 0
    /\ last.op = "evaluate"
    /\ last.exc = ""
    /\ last.ran = self._code
    /\ env.pstore["x"] = env.pstore["y"]

\* the first component of a dotted path
HeadOf(n) ==
    IF n = "a.b" THEN "a" ELSE IF n = "comp.y" THEN "comp" ELSE n

\* path n of the text is resolved against the parent
ResolvedForeign(n) ==
    \/ n \in self.input_names \cup self.output_names
    \/ ParentAccess(self.scoped_text, n)

\* C15: only the first component of a dotted path decides its resolution:
\* the path is local when the scope contains its head name and foreign
\* otherwise, and the whole path is the accessor's path argument.
C15_HeadDecides ==
    constructed =>
        \A n \in Names(self._text) \ {"_local_setter"} :
            /\ HeadOf(n) \in ScopeContains => ~ResolvedForeign(n)
            /\ HeadOf(n) \notin ScopeContains => ResolvedForeign(n)

RECURSIVE Flat(_)
\* the index sub-expressions of the bracket groups in source order,
\* separated by commas
Flat(groups) ==
    IF groups = <<>> THEN <<>>
    ELSE IF Head(groups) = "[" THEN Flat(Tail(groups))
    ELSE IF Head(groups) = "]"
    THEN (IF Tail(groups) = <<>> THEN <<>> ELSE <<",">>) \o Flat(Tail(groups))
    ELSE <<Head(groups)>> \o Flat(Tail(groups))

\* the text is a path followed by one or more bracket groups, each holding
\* one or more comma-separated numbers or names
IndexedPath(text) ==
    /\ Len(text) >= 4
    /\ text[1] \in Idents \ {"_local_setter"}
    /\ text[2] = "[" /\ text[Len(text)] = "]"
    /\ \A i \in 3..Len(text) : text[i] = "[" => text[i - 1] = "]"
    /\ SimpleItems(Flat(Tail(text)), FALSE)

\* one bracket pair around the translations of all index sub-expressions
OneBracket(text) == <<"[">> \o TrItems(Flat(Tail(text))) \o <<"]">>

\* the rewritten form of an indexed path the claim describes
IndexedForm(text) ==
    IF text[1] \in ScopeContains \cap ScopeAttrs
    THEN <<text[1]>> \o OneBracket(text)
    ELSE <<ScopeName(text[1]), ".get", "(", "'", text[1], "'", ",">>
         \o OneBracket(text) \o <<")">>

\* C16: an index trailer of one or more bracket groups, each of one or more
\* comma-separated index sub-expressions (a[1,2], a[1][2], a[1,2][3],
\* a[1][2,3]), is rewritten to one bracket pair holding the translations of
\* all index sub-expressions in source order, separated by commas, and
\* nothing else.
C16_OneBracketPair ==
    (Assigned /\ IndexedPath(last.arg)
     /\ last.exc \notin {"RuntimeError:name", "AttributeError"})
    => /\ last.exc = ""
       /\ self.scoped_text = IndexedForm(last.arg)

\* the text holds a path followed by an index group and a call group, in
\* either order
MixedTrailers(text) ==
    \E i \in 1..(Len(text) - 1) :
        <<text[i], text[i + 1]>> \in {<<"]", "(">>, <<")", "[">>}

Tokens(str) == {str[i] : i \in 1..Len(str)}

\* C17: a text in which a path is followed by both an index group and a
\* call group is not accepted, and the rewritten form of an accepted text
\* misses no trailer group of the source: every number and name of the
\* source is in it.
C17_OneTrailerGroup ==
    /\ (Assigned /\ MixedTrailers(last.arg)) => last.exc # ""
    /\ AssignedOk
       => Tokens(self._text) \cap (Digits \cup Idents) \subseteq
              Tokens(self.scoped_text)

\* C18: after a successful assignment of a text with no top-level '=' to an
\* expression that is not single_name, rhs is empty, even when an earlier
\* text of the expression was an assignment.
C18_RhsNotStale ==
    (AssignedOk /\ ~self.single_name /\ ~IsAssignment(self._text))
    => self.rhs = <<>>

====
